---- MODULE Spec2Model ----
(***************************************************************************)
(* Model of Utilities::Blackboard (src/Blackboard.h): a singleton store    *)
(* holding one ValueMap<T> per value type T, keyed by typeid(T).hash_code()*)
(* Each ValueMap<T> owns four unordered_maps keyed by std::string: the     *)
(* values and the three callback maps (key-only, value-only, key+value).   *)
(*                                                                         *)
(* An unordered_map is a function whose DOMAIN is the set of keys it       *)
(* holds: find(k) != end() is k \in DOMAIN m, operator[] inserts a         *)
(* value-initialised entry when the key is missing, erase shrinks DOMAIN.  *)
(*                                                                         *)
(* Specifications:                                                         *)
(*   Spec, SpecAnyHash  one thread, one action per call of an operation    *)
(*   SpecFaults         also calls with no instance (with assert compiled  *)
(*                      in or out) and allocations that fail               *)
(*   SpecLifecycle      threads in create() and destroy(), one statement   *)
(*                      per step                                           *)
(*   SpecThreads        threads in the data operations and the callbacks   *)
(*                      of write, one statement per step, with mDataLock   *)
(*   SpecThreadsFair    SpecThreads with threads that keep running and     *)
(*                      callbacks that return                              *)
(*   SpecReferences     SpecThreads with the callers of read using the     *)
(*                      references read returned                           *)
(*   SpecDestroy        SpecThreads with destroy() called by threads and   *)
(*                      by callbacks                                       *)
(*                                                                         *)
(* In one thread a data operation holds mDataLock for its whole body, so   *)
(* one operation is one action.  History variables record what the most   *)
(* recent call was (`last`), which callbacks it invoked, in order and with *)
(* their arguments (`fired`), the storage it started from (`prev`), and,   *)
(* from the                                                                *)
(* calls alone, what the caller has written and not wiped (`written`) and  *)
(* what it has subscribed and not removed (`subscribed`).                  *)
(***************************************************************************)
EXTENDS Integers, Sequences, FiniteSets, TLC

\* ---------------------------------------------------------------- bounds
\* The driver, or the threads together, make at most MaxOps calls of the
\* public interface.
MaxOps == 4

\* ---------------------------------------------------------------- inputs
Types == {"A", "B"}
Keys == {"k1", "k2"}
HashCodes == {"h1", "h2"}
Callbacks == {"f", "g"}
Values == {"v0", "v1"}

VARIABLES
    mInstance,     \* Blackboard::mInstance: nullptr or the Blackboard it points to
    heap,          \* the Blackboard objects allocated with new and not deleted
    mDataStorage,  \* mInstance->mDataStorage: hash code -> ValueMap
    hash_code,     \* typeid(T).hash_code() of this execution, per type
    fired,         \* the callback invocations made by the most recent call
    prev,          \* mDataStorage as it was before the most recent call
    ret,           \* what the most recent call returned
    last,          \* the most recent call and its arguments
    subscribed,    \* per (type, key, shape): the callback subscribed and not yet removed
    written,       \* per (type, key): the values written since the entry was last wiped
    nOps,          \* the number of calls made so far
    NDEBUG,        \* the build: TRUE when assert() is compiled out
    stack,         \* per thread: the frames of the calls it is in, innermost last
    mDataLock,     \* per Blackboard: the owner and the lock count of its mutex
    reentered,     \* the threads in which an operation called by a callback has returned
    notified,      \* per thread: the course of the raising write it called, see Notifying
    held           \* per thread: the reference its most recent call, a read, returned

vars == <<mInstance, heap, mDataStorage, hash_code, fired, prev, ret, last, written, subscribed,
          nOps, NDEBUG, stack, mDataLock, reentered, notified, held>>

\* ------------------------------------------------------ std::unordered_map
\* A null function pointer.
nullptr == "nullptr"

\* T(): the value-initialised value operator[] inserts for a missing key.
Default == "v0"

\* No return value.
void == "void"

\* A default-constructed unordered_map.
EmptyMap == [x \in {} |-> ""]

\* m.find(k) != m.end()
find(m, k) == k \in DOMAIN m

\* m[k] = v
assign(m, k, v) == [x \in DOMAIN m \cup {k} |-> IF x = k THEN v ELSE m[x]]

\* Variant for C19: the erase removes nothing.
eraseNothing(m, k) == m

\* m.erase(k)
erase(m, k) == [x \in DOMAIN m \ {k} |-> m[x]]

\* m[k] as an rvalue: inserts a value-initialised entry when k is missing.
subscript(m, k, dflt) == IF find(m, k) THEN m ELSE assign(m, k, dflt)

\* ---------------------------------------------------------------- ValueMap
\* new ValueMap<T>(): `type` is the dynamic type of the object.
NewValueMap(T) ==
    [type |-> T, mValues |-> EmptyMap, mKeyEvents |-> EmptyMap,
     mValueEvents |-> EmptyMap, mPairEvents |-> EmptyMap]

\* Variant for C8: the erase takes every value of the map with it.
ValueMap_wipeKeyAll(map, K) == [map EXCEPT !.mValues = EmptyMap]

ValueMap_wipeKey(map, K) == [map EXCEPT !.mValues = erase(@, K)]

\* Variant for C9: clearing the values clears the callback maps too.
ValueMap_wipeAllAndEvents(map) ==
    [map EXCEPT !.mValues = EmptyMap, !.mKeyEvents = EmptyMap,
                !.mValueEvents = EmptyMap, !.mPairEvents = EmptyMap]

ValueMap_wipeAll(map) == [map EXCEPT !.mValues = EmptyMap]

\* Variant for C11: the key+value registration is left in place.
ValueMap_unsubscribeKeyAndValue(map, K) ==
    [map EXCEPT !.mKeyEvents = IF find(@, K) THEN erase(@, K) ELSE @,
                !.mValueEvents = IF find(@, K) THEN erase(@, K) ELSE @]

ValueMap_unsubscribe(map, K) ==
    [map EXCEPT !.mKeyEvents = IF find(@, K) THEN erase(@, K) ELSE @,
                !.mValueEvents = IF find(@, K) THEN erase(@, K) ELSE @,
                !.mPairEvents = IF find(@, K) THEN erase(@, K) ELSE @]

\* Variant for C10: the key+value callbacks are not cleared.
ValueMap_clearKeyAndValueEvents(map) ==
    [map EXCEPT !.mKeyEvents = EmptyMap, !.mValueEvents = EmptyMap]

ValueMap_clearAllEvents(map) ==
    [map EXCEPT !.mKeyEvents = EmptyMap,
                !.mValueEvents = EmptyMap,
                !.mPairEvents = EmptyMap]

\* -------------------------------------------------------------- Blackboard
isReady == mInstance # nullptr

\* Variant for C26: every type gets the identifier of one type.
templateToIDShared(T) == hash_code["A"]

templateToID(T) == hash_code[T]

\* The storage after supportType<T>(): a ValueMap<T> is created when no entry
\* exists for T's hash code.
supportType(storage, T) ==
    IF find(storage, templateToID(T))
    THEN storage
    ELSE assign(storage, templateToID(T), NewValueMap(T))

\* What a ValueMap<T>* obtained by casting `map` reads for the stored value v:
\* v itself when the object is a ValueMap<T>; any value when it is a ValueMap
\* of another type (the access is undefined behaviour).
Reinterpret(map, T, v) == IF map.type = T THEN {v} ELSE Values

\* The four unordered_maps of a ValueMap.
MapNames == {"mValues", "mKeyEvents", "mValueEvents", "mPairEvents"}

Absent == "absent"

\* Map n of the ValueMap an operation of type T works on (the object stored
\* under T's hash code); empty when there is no such object.
MapIn(storage, T, n) ==
    IF find(storage, templateToID(T)) THEN storage[templateToID(T)][n] ELSE EmptyMap

\* The entry of key K in a map, Absent when the map holds no K.
EntryOf(m, K) == IF find(m, K) THEN m[K] ELSE Absent

\* The entries that differ between two maps n of type T.
ChangedIn(T, n, m1, m2) ==
    IF m1 = m2
    THEN {}
    ELSE {[T |-> T, map |-> n, K |-> K, old |-> EntryOf(m1, K), new |-> EntryOf(m2, K)] :
            K \in {k \in DOMAIN m1 \cup DOMAIN m2 : EntryOf(m1, k) # EntryOf(m2, k)}}

\* The entries that differ between two storages, with their old and new
\* contents.
Changed(old, new) ==
    IF old = new
    THEN {}
    ELSE UNION {ChangedIn(x[1], x[2], MapIn(old, x[1], x[2]), MapIn(new, x[1], x[2])) :
                  x \in Types \X MapNames}

\* The caller's record of its own writes: nothing written.
NothingWritten == [x \in Types \X Keys |-> <<>>]

\* The three callback shapes, in the order write raises them.
Shapes == <<"key", "value", "pair">>

\* The caller's record of its own subscriptions: nothing subscribed.
NothingSubscribed == [x \in Types \X Keys \X {"key", "value", "pair"} |-> Absent]

\* A call of the public interface; "-" fills the arguments it does not take.
Call(op, T, K, v, flag, cb) ==
    [op |-> op, T |-> T, K |-> K, v |-> v, flag |-> flag, cb |-> cb]

\* The three `if (find && cb) cb(...)` statements of write, in source order;
\* x and y are what the two evaluations of map->mValues[pKey] yield.
RaiseKey(map, K) ==
    IF find(map.mKeyEvents, K) /\ map.mKeyEvents[K] # nullptr
    THEN <<[shape |-> "key", cb |-> map.mKeyEvents[K], args |-> <<K>>]>>
    ELSE <<>>

RaiseValue(map, K, x) ==
    IF find(map.mValueEvents, K) /\ map.mValueEvents[K] # nullptr
    THEN <<[shape |-> "value", cb |-> map.mValueEvents[K], args |-> <<x>>]>>
    ELSE <<>>

RaisePair(map, K, y) ==
    IF find(map.mPairEvents, K) /\ map.mPairEvents[K] # nullptr
    THEN <<[shape |-> "pair", cb |-> map.mPairEvents[K], args |-> <<K, y>>]>>
    ELSE <<>>

\* Variant for C3: the key+value callback is raised first.
RaiseCallbacksPairFirst(map, K, x, y) ==
    RaisePair(map, K, y) \o RaiseKey(map, K) \o RaiseValue(map, K, x)

RaiseCallbacks(map, K, x, y) == RaiseKey(map, K) \o RaiseValue(map, K, x) \o RaisePair(map, K, y)

\* Variant for C1: the store inserts and never overwrites
\* (mValues.insert rather than operator[] and assignment).
StoreValueInsertOnly(storage, T, K, v) ==
    LET st == supportType(storage, T)
    IN assign(st, templateToID(T), [st[templateToID(T)] EXCEPT !.mValues = subscript(@, K, v)])

\* The storage after `supportType<T>(); map->mValues[pKey] = pValue;`.
StoreValue(storage, T, K, v) ==
    LET st == supportType(storage, T)
    IN assign(st, templateToID(T), [st[templateToID(T)] EXCEPT !.mValues = assign(@, K, v)])

\* The storage after `supportType<T>(); return map->mValues[pKey];`.
LoadValue(storage, T, K) ==
    LET st == supportType(storage, T)
    IN assign(st, templateToID(T),
              [st[templateToID(T)] EXCEPT !.mValues = subscript(@, K, Default)])

\* What read<T>(K) can return from `storage`.
ReadResult(storage, T, K) ==
    LET map == LoadValue(storage, T, K)[templateToID(T)]
    IN Reinterpret(map, T, map.mValues[K])

\* Variant for C4: the callbacks are raised before the value is stored and
\* receive what the key held until then.
FiresBeforeStore(storage, T, K, v) ==
    LET map == [StoreValue(storage, T, K, v)[templateToID(T)]
                   EXCEPT !.mValues = LoadValue(storage, T, K)[templateToID(T)].mValues]
        seen == Reinterpret(map, T, map.mValues[K])
    IN {RaiseCallbacks(map, K, x, y) : x \in seen, y \in seen}

\* The callback invocations write<T>(K, v, true) can make from `storage`.
Fires(storage, T, K, v) ==
    LET map == StoreValue(storage, T, K, v)[templateToID(T)]
        seen == Reinterpret(map, T, map.mValues[K])
    IN {RaiseCallbacks(map, K, x, y) : x \in seen, y \in seen}

\* How a call ends other than by returning: abort() from a failed assert, a
\* fault, an exception that nothing catches.
SIGABRT == "SIGABRT"

SIGSEGV == "SIGSEGV"

bad_alloc == "std::bad_alloc"

\* The process has ended.
\* The execution has met undefined behaviour: nothing is known of it from here on.
undefined == "undefined"
Terminated == ret \in {SIGABRT, SIGSEGV, bad_alloc, undefined}

\* The driver makes its next call: the process is running and fewer than
\* MaxOps calls have been made.
Counted ==
    /\ ~Terminated
    /\ nOps < MaxOps
    /\ nOps' = nOps + 1
    /\ UNCHANGED <<NDEBUG, stack, mDataLock, reentered, notified, held>>

\* The storage once every ValueMap and the instance have been deleted, and the
\* storage of a freshly constructed Blackboard.
NoStorage == EmptyMap

\* The addresses operator new can return for a Blackboard.
Blackboards == {"b1", "b2", "b3"}

\* new Blackboard() with the objects of h allocated: the first free address.
new(h) ==
    IF "b1" \notin h THEN "b1" ELSE IF "b2" \notin h THEN "b2" ELSE "b3"

\* The threads of the process.
Threads == {"t1", "t2"}

\* A std::recursive_mutex nobody owns, as the Blackboard constructor leaves it.
none == "none"
Unlocked == [owner |-> none, count |-> 0]

\* Variant for C13: an existing instance is kept as it is.
createKeepsInstance ==
    /\ Counted
    /\ mInstance' = (IF isReady THEN mInstance ELSE new(heap))
    /\ heap' = heap \cup {mInstance'}
    /\ mDataStorage' = mDataStorage
    /\ fired' = <<>>
    /\ last' = Call("create", "-", "-", "-", isReady, "-")
    /\ written' = NothingWritten
    /\ subscribed' = NothingSubscribed
    /\ prev' = mDataStorage
    /\ ret' = "true"
    /\ UNCHANGED hash_code

\* create(): `if (isReady()) destroy();` then `mInstance = new Blackboard()`.
\* The flag of the recorded call tells whether an instance was live at the call.
create ==
    /\ Counted
    /\ mInstance' = new(heap \ {mInstance})
    /\ heap' = (heap \ {mInstance}) \cup {mInstance'}
    /\ mDataStorage' = NoStorage
    /\ fired' = <<>>
    /\ last' = Call("create", "-", "-", "-", isReady, "-")
    /\ written' = NothingWritten
    /\ subscribed' = NothingSubscribed
    /\ prev' = mDataStorage
    /\ ret' = "true"
    /\ UNCHANGED hash_code

\* Variant for C14: the ValueMaps and the instance are deleted, the pointer is
\* not reset.
destroyKeepsPointer ==
    /\ Counted
    /\ mInstance' = mInstance
    /\ heap' = heap \ {mInstance}
    /\ mDataStorage' = (IF isReady THEN NoStorage ELSE mDataStorage)
    /\ fired' = <<>>
    /\ last' = Call("destroy", "-", "-", "-", isReady, "-")
    /\ written' = NothingWritten
    /\ subscribed' = NothingSubscribed
    /\ prev' = mDataStorage
    /\ ret' = void
    /\ UNCHANGED hash_code

\* destroy(): nothing without an instance (the storage is then NoStorage
\* already); else deletes every ValueMap, then the instance, and resets the
\* pointer.
destroy ==
    /\ Counted
    /\ mInstance' = nullptr
    /\ heap' = heap \ {mInstance}
    /\ mDataStorage' = (IF isReady THEN NoStorage ELSE mDataStorage)
    /\ fired' = <<>>
    /\ last' = Call("destroy", "-", "-", "-", isReady, "-")
    /\ written' = NothingWritten
    /\ subscribed' = NothingSubscribed
    /\ prev' = mDataStorage
    /\ ret' = void
    /\ UNCHANGED hash_code

\* Every operation on the data starts with assert(mInstance): the actions
\* below are the calls made while an instance exists.

\* Variant for C5: the flag is not consulted.
writeAlwaysRaises(T, K, v, pRaiseCallbacks) ==
    /\ Counted
    /\ isReady
    /\ mDataStorage' = StoreValue(mDataStorage, T, K, v)
    /\ fired' \in Fires(mDataStorage, T, K, v)
    /\ last' = Call("write", T, K, v, pRaiseCallbacks, "-")
    /\ written' = [written EXCEPT ![<<T, K>>] = Append(@, v)]
    /\ UNCHANGED subscribed
    /\ prev' = mDataStorage
    /\ ret' = void
    /\ UNCHANGED <<mInstance, heap, hash_code>>

write(T, K, v, pRaiseCallbacks) ==
    /\ Counted
    /\ isReady
    /\ mDataStorage' = StoreValue(mDataStorage, T, K, v)
    /\ fired' \in (IF pRaiseCallbacks THEN Fires(mDataStorage, T, K, v) ELSE {<<>>})
    /\ last' = Call("write", T, K, v, pRaiseCallbacks, "-")
    /\ written' = [written EXCEPT ![<<T, K>>] = Append(@, v)]
    /\ UNCHANGED subscribed
    /\ prev' = mDataStorage
    /\ ret' = void
    /\ UNCHANGED <<mInstance, heap, hash_code>>

read(T, K) ==
    /\ Counted
    /\ isReady
    /\ mDataStorage' = LoadValue(mDataStorage, T, K)
    /\ ret' \in ReadResult(mDataStorage, T, K)
    /\ fired' = <<>>
    /\ last' = Call("read", T, K, "-", FALSE, "-")
    /\ UNCHANGED <<written, subscribed>>
    /\ prev' = mDataStorage
    /\ UNCHANGED <<mInstance, heap, hash_code>>

\* Variant for C7: the key is erased from every partition.
wipeTypeKeyEveryType(T, K) ==
    /\ Counted
    /\ isReady
    /\ LET st == supportType(mDataStorage, T)
       IN mDataStorage' = [h \in DOMAIN st |-> ValueMap_wipeKey(st[h], K)]
    /\ fired' = <<>>
    /\ last' = Call("wipeTypeKey", T, K, "-", FALSE, "-")
    /\ written' = [written EXCEPT ![<<T, K>>] = <<>>]
    /\ UNCHANGED subscribed
    /\ prev' = mDataStorage
    /\ ret' = void
    /\ UNCHANGED <<mInstance, heap, hash_code>>

wipeTypeKey(T, K) ==
    /\ Counted
    /\ isReady
    /\ LET st == supportType(mDataStorage, T)
           key == templateToID(T)
       IN mDataStorage' = assign(st, key, ValueMap_wipeKey(st[key], K))
    /\ fired' = <<>>
    /\ last' = Call("wipeTypeKey", T, K, "-", FALSE, "-")
    /\ written' = [written EXCEPT ![<<T, K>>] = <<>>]
    /\ UNCHANGED subscribed
    /\ prev' = mDataStorage
    /\ ret' = void
    /\ UNCHANGED <<mInstance, heap, hash_code>>

\* Variant for C23: a partition the wipe leaves without values is removed.
wipeKeyDropsEmpty(K) ==
    /\ Counted
    /\ isReady
    /\ mDataStorage' =
         [h \in {x \in DOMAIN mDataStorage : DOMAIN mDataStorage[x].mValues \ {K} # {}} |->
            ValueMap_wipeKey(mDataStorage[h], K)]
    /\ fired' = <<>>
    /\ last' = Call("wipeKey", "-", K, "-", FALSE, "-")
    /\ written' = [x \in Types \X Keys |-> IF x[2] = K THEN <<>> ELSE written[x]]
    /\ UNCHANGED subscribed
    /\ prev' = mDataStorage
    /\ ret' = void
    /\ UNCHANGED <<mInstance, heap, hash_code>>

wipeKey(K) ==
    /\ Counted
    /\ isReady
    /\ mDataStorage' = [h \in DOMAIN mDataStorage |-> ValueMap_wipeKey(mDataStorage[h], K)]
    /\ fired' = <<>>
    /\ last' = Call("wipeKey", "-", K, "-", FALSE, "-")
    /\ written' = [x \in Types \X Keys |-> IF x[2] = K THEN <<>> ELSE written[x]]
    /\ UNCHANGED subscribed
    /\ prev' = mDataStorage
    /\ ret' = void
    /\ UNCHANGED <<mInstance, heap, hash_code>>

wipeBoard(pWipeCallbacks) ==
    /\ Counted
    /\ isReady
    /\ mDataStorage' =
         [h \in DOMAIN mDataStorage |->
            IF pWipeCallbacks
            THEN ValueMap_clearAllEvents(ValueMap_wipeAll(mDataStorage[h]))
            ELSE ValueMap_wipeAll(mDataStorage[h])]
    /\ fired' = <<>>
    /\ last' = Call("wipeBoard", "-", "-", "-", pWipeCallbacks, "-")
    /\ written' = NothingWritten
    /\ subscribed' = IF pWipeCallbacks THEN NothingSubscribed ELSE subscribed
    /\ prev' = mDataStorage
    /\ ret' = void
    /\ UNCHANGED <<mInstance, heap, hash_code>>

\* The three subscribe overloads, told apart in C++ by the callback's type.
subscribeKey(T, K, pCb) ==
    /\ Counted
    /\ isReady
    /\ LET st == supportType(mDataStorage, T)
           key == templateToID(T)
       IN mDataStorage' = assign(st, key, [st[key] EXCEPT !.mKeyEvents = assign(@, K, pCb)])
    /\ fired' = <<>>
    /\ last' = Call("subscribeKey", T, K, "-", FALSE, pCb)
    /\ UNCHANGED written
    /\ subscribed' = [subscribed EXCEPT ![<<T, K, "key">>] = pCb]
    /\ prev' = mDataStorage
    /\ ret' = void
    /\ UNCHANGED <<mInstance, heap, hash_code>>

\* Variant for C6: the value-only overload stores into the key-only map.
subscribeValueIntoKeyEvents(T, K, pCb) ==
    /\ Counted
    /\ isReady
    /\ LET st == supportType(mDataStorage, T)
           key == templateToID(T)
       IN mDataStorage' = assign(st, key, [st[key] EXCEPT !.mKeyEvents = assign(@, K, pCb)])
    /\ fired' = <<>>
    /\ last' = Call("subscribeValue", T, K, "-", FALSE, pCb)
    /\ UNCHANGED written
    /\ subscribed' = [subscribed EXCEPT ![<<T, K, "value">>] = pCb]
    /\ prev' = mDataStorage
    /\ ret' = void
    /\ UNCHANGED <<mInstance, heap, hash_code>>

subscribeValue(T, K, pCb) ==
    /\ Counted
    /\ isReady
    /\ LET st == supportType(mDataStorage, T)
           key == templateToID(T)
       IN mDataStorage' = assign(st, key, [st[key] EXCEPT !.mValueEvents = assign(@, K, pCb)])
    /\ fired' = <<>>
    /\ last' = Call("subscribeValue", T, K, "-", FALSE, pCb)
    /\ UNCHANGED written
    /\ subscribed' = [subscribed EXCEPT ![<<T, K, "value">>] = pCb]
    /\ prev' = mDataStorage
    /\ ret' = void
    /\ UNCHANGED <<mInstance, heap, hash_code>>

\* Variant for C30: the subscribe looks the value up with operator[].
subscribePairTouchesValue(T, K, pCb) ==
    /\ Counted
    /\ isReady
    /\ LET st == supportType(mDataStorage, T)
           key == templateToID(T)
       IN mDataStorage' = assign(st, key, [st[key] EXCEPT !.mPairEvents = assign(@, K, pCb),
                                                          !.mValues = subscript(@, K, Default)])
    /\ fired' = <<>>
    /\ last' = Call("subscribePair", T, K, "-", FALSE, pCb)
    /\ UNCHANGED written
    /\ subscribed' = [subscribed EXCEPT ![<<T, K, "pair">>] = pCb]
    /\ prev' = mDataStorage
    /\ ret' = void
    /\ UNCHANGED <<mInstance, heap, hash_code>>

subscribePair(T, K, pCb) ==
    /\ Counted
    /\ isReady
    /\ LET st == supportType(mDataStorage, T)
           key == templateToID(T)
       IN mDataStorage' = assign(st, key, [st[key] EXCEPT !.mPairEvents = assign(@, K, pCb)])
    /\ fired' = <<>>
    /\ last' = Call("subscribePair", T, K, "-", FALSE, pCb)
    /\ UNCHANGED written
    /\ subscribed' = [subscribed EXCEPT ![<<T, K, "pair">>] = pCb]
    /\ prev' = mDataStorage
    /\ ret' = void
    /\ UNCHANGED <<mInstance, heap, hash_code>>

\* Variant for C24: no ValueMap is created for a type that has none.
unsubscribeIfRegistered(T, K) ==
    /\ Counted
    /\ isReady
    /\ LET key == templateToID(T)
       IN mDataStorage' = (IF find(mDataStorage, key)
                           THEN assign(mDataStorage, key, ValueMap_unsubscribe(mDataStorage[key], K))
                           ELSE mDataStorage)
    /\ fired' = <<>>
    /\ last' = Call("unsubscribe", T, K, "-", FALSE, "-")
    /\ UNCHANGED written
    /\ subscribed' = [x \in DOMAIN subscribed |->
                        IF x[1] = T /\ x[2] = K THEN Absent ELSE subscribed[x]]
    /\ prev' = mDataStorage
    /\ ret' = void
    /\ UNCHANGED <<mInstance, heap, hash_code>>

unsubscribe(T, K) ==
    /\ Counted
    /\ isReady
    /\ LET st == supportType(mDataStorage, T)
           key == templateToID(T)
       IN mDataStorage' = assign(st, key, ValueMap_unsubscribe(st[key], K))
    /\ fired' = <<>>
    /\ last' = Call("unsubscribe", T, K, "-", FALSE, "-")
    /\ UNCHANGED written
    /\ subscribed' = [x \in DOMAIN subscribed |->
                        IF x[1] = T /\ x[2] = K THEN Absent ELSE subscribed[x]]
    /\ prev' = mDataStorage
    /\ ret' = void
    /\ UNCHANGED <<mInstance, heap, hash_code>>

\* Variant for C12: only one of the ValueMaps is visited.
unsubscribeAllOneType(K) ==
    /\ Counted
    /\ isReady
    /\ mDataStorage' =
         [h \in DOMAIN mDataStorage |->
            IF h = templateToID("A")
            THEN ValueMap_unsubscribe(mDataStorage[h], K)
            ELSE mDataStorage[h]]
    /\ fired' = <<>>
    /\ last' = Call("unsubscribeAll", "-", K, "-", FALSE, "-")
    /\ UNCHANGED written
    /\ subscribed' = [x \in DOMAIN subscribed |->
                        IF x[2] = K THEN Absent ELSE subscribed[x]]
    /\ prev' = mDataStorage
    /\ ret' = void
    /\ UNCHANGED <<mInstance, heap, hash_code>>

unsubscribeAll(K) ==
    /\ Counted
    /\ isReady
    /\ mDataStorage' = [h \in DOMAIN mDataStorage |-> ValueMap_unsubscribe(mDataStorage[h], K)]
    /\ fired' = <<>>
    /\ last' = Call("unsubscribeAll", "-", K, "-", FALSE, "-")
    /\ UNCHANGED written
    /\ subscribed' = [x \in DOMAIN subscribed |->
                        IF x[2] = K THEN Absent ELSE subscribed[x]]
    /\ prev' = mDataStorage
    /\ ret' = void
    /\ UNCHANGED <<mInstance, heap, hash_code>>

\* The operations that start with assert(mInstance).
DataOps ==
    {"write", "read", "wipeTypeKey", "wipeKey", "wipeBoard", "subscribeKey",
     "subscribeValue", "subscribePair", "unsubscribe", "unsubscribeAll"}

\* A data operation called while mInstance is null.  With assertions the
\* assert fails and abort() ends the process.  Under NDEBUG the assert is
\* empty and the next statement locks mInstance->mDataLock through the null
\* pointer, which is undefined: the call faults or carries on and returns.
callWithoutInstance(op) ==
    /\ Counted
    /\ ~isReady
    /\ ret' \in (IF NDEBUG THEN {SIGSEGV, "returned"} ELSE {SIGABRT})
    /\ last' = Call(op, "-", "-", "-", FALSE, "-")
    /\ fired' = <<>>
    /\ prev' = mDataStorage
    /\ UNCHANGED <<mInstance, heap, mDataStorage, hash_code, written, subscribed>>

\* create() when `new Blackboard()` fails: a live instance has been destroyed
\* by then, operator new throws std::bad_alloc, mInstance stays null and the
\* exception leaves create(); nothing in the driver catches it.
createThrows ==
    /\ Counted
    /\ mInstance' = nullptr
    /\ heap' = heap \ {mInstance}
    /\ mDataStorage' = NoStorage
    /\ fired' = <<>>
    /\ last' = Call("create", "-", "-", "-", isReady, "-")
    /\ written' = NothingWritten
    /\ subscribed' = NothingSubscribed
    /\ prev' = mDataStorage
    /\ ret' = bad_alloc
    /\ UNCHANGED hash_code

\* The operations that start with supportType<T>().
TypedOps ==
    {"write", "read", "wipeTypeKey", "subscribeKey", "subscribeValue",
     "subscribePair", "unsubscribe"}

\* A typed operation whose supportType<T>() has to create the ValueMap when
\* `new ValueMap<T>()` fails: std::bad_alloc leaves the operation (the
\* lock_guard unlocks) and nothing in the driver catches it.  In
\* `mDataStorage[key] = new ...` the subscript may be evaluated before the
\* new-expression, and then leaves a null entry for the key.
supportTypeThrows(op, T) ==
    /\ Counted
    /\ isReady
    /\ ~find(mDataStorage, templateToID(T))
    /\ mDataStorage' \in {mDataStorage, assign(mDataStorage, templateToID(T), nullptr)}
    /\ fired' = <<>>
    /\ last' = Call(op, T, "-", "-", FALSE, "-")
    /\ prev' = mDataStorage
    /\ ret' = bad_alloc
    /\ UNCHANGED <<mInstance, heap, hash_code, written, subscribed>>

\* The callbacks the driver subscribes.
CallbackArgs == Callbacks

\* One assignment of distinct hash codes to the types (the others rename the
\* hash codes).
DistinctHash == [T \in Types |-> IF T = "A" THEN "h1" ELSE "h2"]

\* The course of a write<T>(K, v, true) a thread called outside any callback,
\* from its store on: the value (T, K) held before the store (`before`), the
\* shapes registered for (T, K) at the store (`due`), the shapes whose
\* callback the write has called (`done`), and whether the operations its
\* callbacks called have left alone the value of (T, K) (`stored`) and the
\* registrations of (T, K) (`kept`).
Notifying(before, due, done, stored, kept) ==
    [before |-> before, due |-> due, done |-> done, stored |-> stored, kept |-> kept]
Idle == Notifying("-", {}, {}, TRUE, TRUE)

\* `return map->mValues[pKey];` in a function that returns const T&: the
\* caller receives a reference to the value held in the map, here the entry
\* it refers to and the value read through it in read.
Reference(T, K, v) == [T |-> T, K |-> K, v |-> v]

\* The thread holds no reference.
NoReference == Reference("-", "-", "-")

\* Static initialisation: mInstance = nullptr.  hash_code is fixed for the
\* execution; InitAnyHash allows every assignment of hash codes to types,
\* Init those that give distinct types distinct hash codes.
InitAnyHash ==
    /\ mInstance = nullptr
    /\ heap = {}
    /\ stack = [t \in Threads |-> <<>>]
    /\ mDataLock = [b \in Blackboards |-> Unlocked]
    /\ reentered = {}
    /\ notified = [t \in Threads |-> Idle]
    /\ held = [t \in Threads |-> NoReference]
    /\ mDataStorage = NoStorage
    /\ hash_code \in [Types -> HashCodes]
    /\ fired = <<>>
    /\ ret = void
    /\ prev = NoStorage
    /\ last = Call("none", "-", "-", "-", FALSE, "-")
    /\ written = NothingWritten
    /\ subscribed = NothingSubscribed
    /\ nOps = 0
    /\ NDEBUG \in BOOLEAN

\* InitAnyBuild: distinct hash codes, assertions compiled in or out.
InitAnyBuild ==
    /\ InitAnyHash
    /\ hash_code = DistinctHash

Init ==
    /\ InitAnyBuild
    /\ ~NDEBUG

Next ==
    \/ create
    \/ destroy
    \/ \E T \in Types, K \in Keys, v \in Values, r \in BOOLEAN : write(T, K, v, r)
    \/ \E T \in Types, K \in Keys : read(T, K)
    \/ \E T \in Types, K \in Keys : wipeTypeKey(T, K)
    \/ \E K \in Keys : wipeKey(K)
    \/ \E w \in BOOLEAN : wipeBoard(w)
    \/ \E T \in Types, K \in Keys, cb \in CallbackArgs : subscribeKey(T, K, cb)
    \/ \E T \in Types, K \in Keys, cb \in CallbackArgs : subscribeValue(T, K, cb)
    \/ \E T \in Types, K \in Keys, cb \in CallbackArgs : subscribePair(T, K, cb)
    \/ \E T \in Types, K \in Keys : unsubscribe(T, K)
    \/ \E K \in Keys : unsubscribeAll(K)

\* Spec: the types in use have pairwise distinct hash codes.
Spec == Init /\ [][Next]_vars

\* SpecAnyHash: hash_code is any function of the type.
InitAnyHashDebug ==
    /\ InitAnyHash
    /\ ~NDEBUG

SpecAnyHash == InitAnyHashDebug /\ [][Next]_vars

\* The calls of Next, the data operations called without an instance, and the
\* calls in which an allocation fails.
NextFaults ==
    \/ Next
    \/ \E op \in DataOps : callWithoutInstance(op)
    \/ createThrows
    \/ \E op \in TypedOps, T \in Types : supportTypeThrows(op, T)

\* SpecFaults: either build, calls without an instance, failing allocations.
SpecFaults == InitAnyBuild /\ [][NextFaults]_vars

\* ----------------------------------------------------------------- threads
\* Threads run the calls statement by statement; a step is one statement of one
\* thread.  A frame is a call a thread is in: the call, the statement it is
\* at, and the Blackboard its lock or its new-expression refers to.
Frame(call, at, p) == [call |-> call, at |-> at, p |-> p]

\* The shapes of (T, K) that hold a callback.
RegisteredShapes(storage, T, K) ==
    LET key == templateToID(T)
    IN IF ~find(storage, key) THEN {}
       ELSE (IF RaiseKey(storage[key], K) # <<>> THEN {"key"} ELSE {})
            \cup (IF RaiseValue(storage[key], K, Default) # <<>> THEN {"value"} ELSE {})
            \cup (IF RaisePair(storage[key], K, Default) # <<>> THEN {"pair"} ELSE {})

\* The three registrations of (T, K).
RegistrationsOf(storage, T, K) ==
    [n \in {"mKeyEvents", "mValueEvents", "mPairEvents"} |-> EntryOf(MapIn(storage, T, n), K)]

Top(t) == stack[t][Len(stack[t])]
Push(t, f) == [stack EXCEPT ![t] = Append(@, f)]
Pop(t) == [stack EXCEPT ![t] = SubSeq(@, 1, Len(@) - 1)]
SetTop(t, f) == [stack EXCEPT ![t] = Append(SubSeq(@, 1, Len(@) - 1), f)]
At(t, op, at) ==
    /\ ~Terminated
    /\ stack[t] # <<>>
    /\ Top(t).call.op = op
    /\ Top(t).at = at

\* The thread returns from its innermost call.
Return(t) == stack' = Pop(t)

\* Variant for C18: a std::mutex, which its owner cannot lock again.
CanLockOnce(lock, t) == lock.owner = none

\* std::recursive_mutex::lock() by thread t returns when no other thread owns
\* the mutex, and counts the locks of the owner.
CanLock(lock, t) == lock.owner \in {none, t}
Lock(lock, t) == [owner |-> t, count |-> lock.count + 1]
Unlock(lock) ==
    IF lock.count = 1 THEN Unlocked ELSE [owner |-> lock.owner, count |-> lock.count - 1]

\* What the statements of the threads leave alone: the record of the calls of
\* the single-threaded driver.
driver ==
    <<hash_code, fired, prev, last, written, subscribed, nOps, NDEBUG, reentered, notified, held>>

\* A statement uses an object that has been deleted or a null pointer, or
\* unlocks a mutex the thread does not own.
Undefined ==
    /\ ret' = undefined
    /\ UNCHANGED <<mInstance, heap, mDataStorage, stack, mDataLock, driver>>

\* A thread that is in no call calls create() or destroy(); the calls the
\* threads make count towards MaxOps.
callLifecycle(t, op) ==
    /\ ~Terminated
    /\ stack[t] = <<>>
    /\ nOps < MaxOps
    /\ nOps' = nOps + 1
    /\ stack' = Push(t, Frame(Call(op, "-", "-", "-", FALSE, "-"), "begin", nullptr))
    /\ UNCHANGED <<mInstance, heap, mDataStorage, ret, mDataLock>>
    /\ UNCHANGED <<hash_code, fired, prev, last, written, subscribed, NDEBUG, reentered, notified, held>>

\* create(): `if (isReady()) destroy();`
create_isReady(t) ==
    /\ At(t, "create", "begin")
    /\ stack' = (IF isReady
                   THEN [stack EXCEPT ![t] =
                            Append(SubSeq(@, 1, Len(@) - 1), Frame(Top(t).call, "new", nullptr))
                            \o <<Frame(Call("destroy", "-", "-", "-", FALSE, "-"), "begin", nullptr)>>]
                   ELSE SetTop(t, Frame(Top(t).call, "new", nullptr)))
    /\ UNCHANGED <<mInstance, heap, mDataStorage, ret, mDataLock, driver>>

\* create(): the new-expression of `mInstance = new Blackboard();`
create_new(t) ==
    /\ At(t, "create", "new")
    /\ Cardinality(heap) < Cardinality(Blackboards)
    /\ heap' = heap \cup {new(heap)}
    /\ stack' = SetTop(t, Frame(Top(t).call, "assign", new(heap)))
    /\ UNCHANGED <<mInstance, mDataStorage, ret, mDataLock, driver>>

\* create(): the assignment of `mInstance = new Blackboard();` and the return.
create_assign(t) ==
    /\ At(t, "create", "assign")
    /\ mInstance' = Top(t).p
    /\ Return(t)
    /\ UNCHANGED <<heap, mDataStorage, ret, mDataLock, driver>>

\* destroy(): `if (mInstance) {`
destroy_test(t) ==
    /\ At(t, "destroy", "begin")
    /\ IF mInstance # nullptr
         THEN stack' = SetTop(t, Frame(Top(t).call, "lock", nullptr))
         ELSE Return(t)
    /\ UNCHANGED <<mInstance, heap, mDataStorage, ret, mDataLock, driver>>

\* destroy(): `mInstance->mDataLock.lock();`
destroy_lock(t) ==
    /\ At(t, "destroy", "lock")
    /\ IF mInstance \notin heap
         THEN Undefined
         ELSE /\ CanLock(mDataLock[mInstance], t)
              /\ mDataLock' = [mDataLock EXCEPT ![mInstance] = Lock(@, t)]
              /\ stack' = SetTop(t, Frame(Top(t).call, "delete maps", mInstance))
              /\ UNCHANGED <<mInstance, heap, mDataStorage, ret, driver>>

\* A ValueMap that has been deleted: its entry stays in mDataStorage, the
\* pointer dangling.
Freed == NewValueMap("freed")

\* destroy(): `for (auto pair : mInstance->mDataStorage) delete pair.second;`
\* and `mInstance->mDataLock.unlock();`.  The loop deletes the ValueMaps and
\* leaves their entries in mDataStorage.
destroy_deleteMaps(t) ==
    /\ At(t, "destroy", "delete maps")
    /\ IF mInstance \notin heap \/ mDataLock[mInstance].owner # t
         THEN Undefined
         ELSE /\ mDataStorage' = [h \in DOMAIN mDataStorage |-> Freed]
              /\ mDataLock' = [mDataLock EXCEPT ![mInstance] = Unlock(@)]
              /\ stack' = SetTop(t, Frame(Top(t).call, "delete", nullptr))
              /\ UNCHANGED <<mInstance, heap, ret, driver>>

\* destroy(): `delete mInstance;` (deleting a null pointer does nothing).  The
\* instance goes with its mDataStorage and its mutex.
destroy_delete(t) ==
    /\ At(t, "destroy", "delete")
    /\ IF mInstance # nullptr /\ mInstance \notin heap
         THEN Undefined
         ELSE /\ heap' = heap \ {mInstance}
              /\ mDataLock' = [b \in Blackboards |-> IF b = mInstance THEN Unlocked ELSE mDataLock[b]]
              /\ mDataStorage' = (IF mInstance = nullptr THEN mDataStorage ELSE NoStorage)
              /\ stack' = SetTop(t, Frame(Top(t).call, "reset", nullptr))
              /\ UNCHANGED <<mInstance, ret, driver>>

\* destroy(): `mInstance = nullptr;` and the return.
destroy_reset(t) ==
    /\ At(t, "destroy", "reset")
    /\ mInstance' = nullptr
    /\ Return(t)
    /\ UNCHANGED <<heap, mDataStorage, ret, mDataLock, driver>>

\* SpecLifecycle: the threads call create() and destroy() in any order, their
\* statements interleaved.
NextLifecycle ==
    \E t \in Threads :
        \/ callLifecycle(t, "create")
        \/ callLifecycle(t, "destroy")
        \/ create_isReady(t)
        \/ create_new(t)
        \/ create_assign(t)
        \/ destroy_test(t)
        \/ destroy_lock(t)
        \/ destroy_deleteMaps(t)
        \/ destroy_delete(t)
        \/ destroy_reset(t)

SpecLifecycle == Init /\ [][NextLifecycle]_vars

\* The data operations, statement by statement.  The calls the threads make:
\* every operation, on one type and one key.
ThreadCalls ==
    {Call("write", "A", "k1", "v1", r, "-") : r \in BOOLEAN}
    \cup {Call("wipeBoard", "-", "-", "-", w, "-") : w \in BOOLEAN}
    \cup {Call(op, "A", "k1", "-", FALSE, "f") : op \in {"subscribeKey", "subscribeValue", "subscribePair"}}
    \cup {Call(op, "A", "k1", "-", FALSE, "-") : op \in {"read", "wipeTypeKey", "unsubscribe"}}
    \cup {Call(op, "-", "k1", "-", FALSE, "-") : op \in {"wipeKey", "unsubscribeAll"}}

\* The calls the callbacks make: a write that raises callbacks in turn, a
\* read, an erase and an unsubscribe.
CallbackCalls ==
    {Call("write", "A", "k1", "v1", TRUE, "-"), Call("read", "A", "k1", "-", FALSE, "-"),
     Call("wipeTypeKey", "A", "k1", "-", FALSE, "-"), Call("unsubscribe", "A", "k1", "-", FALSE, "-")}

\* How deep the calls of one thread nest: a callback may call an operation
\* while fewer than MaxDepth operations are in progress in its thread.
MaxDepth == 2

IsDataOp(f) == f.call.op \in DataOps
Depth(t) == Cardinality({i \in 1..Len(stack[t]) : IsDataOp(stack[t][i])})

\* The storage after the statements of operation c between taking the lock and
\* raising the callbacks.
After(storage, c) ==
    LET st == supportType(storage, c.T)
        key == templateToID(c.T)
    IN CASE c.op = "write" -> StoreValue(storage, c.T, c.K, c.v)
         [] c.op = "read" -> LoadValue(storage, c.T, c.K)
         [] c.op = "wipeTypeKey" -> assign(st, key, ValueMap_wipeKey(st[key], c.K))
         [] c.op = "wipeKey" -> [h \in DOMAIN storage |-> ValueMap_wipeKey(storage[h], c.K)]
         [] c.op = "wipeBoard" ->
              [h \in DOMAIN storage |->
                 IF c.flag
                 THEN ValueMap_clearAllEvents(ValueMap_wipeAll(storage[h]))
                 ELSE ValueMap_wipeAll(storage[h])]
         [] c.op = "subscribeKey" ->
              assign(st, key, [st[key] EXCEPT !.mKeyEvents = assign(@, c.K, c.cb)])
         [] c.op = "subscribeValue" ->
              assign(st, key, [st[key] EXCEPT !.mValueEvents = assign(@, c.K, c.cb)])
         [] c.op = "subscribePair" ->
              assign(st, key, [st[key] EXCEPT !.mPairEvents = assign(@, c.K, c.cb)])
         [] c.op = "unsubscribe" -> assign(st, key, ValueMap_unsubscribe(st[key], c.K))
         [] c.op = "unsubscribeAll" ->
              [h \in DOMAIN storage |-> ValueMap_unsubscribe(storage[h], c.K)]

\* The main thread creates the instance before the threads run.
createFirst ==
    /\ ~isReady
    /\ create

\* A thread that is in no call calls a data operation: `assert(mInstance);`
callData(t, c) ==
    /\ ~Terminated
    /\ isReady
    /\ stack[t] = <<>>
    /\ nOps < MaxOps
    /\ nOps' = nOps + 1
    /\ stack' = Push(t, Frame(c, "begin", nullptr))
    /\ UNCHANGED <<mInstance, heap, mDataStorage, ret, mDataLock>>
    /\ UNCHANGED <<hash_code, fired, prev, last, written, subscribed, NDEBUG, reentered, notified>>
    /\ held' = [held EXCEPT ![t] = NoReference]

\* The statement after the lock_guard: `size_t key = mInstance->supportType<T>();`
\* in the operations that take a type, the body in the others.
AfterLock(c) == IF c.op \in TypedOps THEN "supportType" ELSE "body"

\* Variant for C17: the operation does not wait for the mutex.
lock_guardNoWait(t) ==
    /\ ~Terminated
    /\ stack[t] # <<>>
    /\ IsDataOp(Top(t))
    /\ Top(t).at = "begin"
    /\ mDataLock' = [mDataLock EXCEPT ![mInstance] = Lock(@, t)]
    /\ stack' = SetTop(t, Frame(Top(t).call, AfterLock(Top(t).call), mInstance))
    /\ UNCHANGED <<mInstance, heap, mDataStorage, ret, driver>>

\* `std::lock_guard<std::recursive_mutex> guard(mInstance->mDataLock);`
lock_guard(t) ==
    /\ ~Terminated
    /\ stack[t] # <<>>
    /\ IsDataOp(Top(t))
    /\ Top(t).at = "begin"
    /\ CanLock(mDataLock[mInstance], t)
    /\ mDataLock' = [mDataLock EXCEPT ![mInstance] = Lock(@, t)]
    /\ stack' = SetTop(t, Frame(Top(t).call, AfterLock(Top(t).call), mInstance))
    /\ UNCHANGED <<mInstance, heap, mDataStorage, ret, driver>>

\* supportType: `if (mDataStorage.find(key) == mDataStorage.end())`
supportType_find(t) ==
    /\ ~Terminated
    /\ stack[t] # <<>>
    /\ IsDataOp(Top(t))
    /\ Top(t).at = "supportType"
    /\ stack' = SetTop(t, Frame(Top(t).call,
                                IF find(mDataStorage, templateToID(Top(t).call.T))
                                THEN "body" ELSE "new",
                                Top(t).p))
    /\ UNCHANGED <<mInstance, heap, mDataStorage, ret, mDataLock, driver>>

\* supportType: `mDataStorage[key] = new Utilities::Templates::ValueMap<T>();`
\* The assignment replaces whatever the key holds.
supportType_new(t) ==
    /\ ~Terminated
    /\ stack[t] # <<>>
    /\ IsDataOp(Top(t))
    /\ Top(t).at = "new"
    /\ mDataStorage' = assign(mDataStorage, templateToID(Top(t).call.T), NewValueMap(Top(t).call.T))
    /\ stack' = SetTop(t, Frame(Top(t).call, "body", Top(t).p))
    /\ UNCHANGED <<mInstance, heap, ret, mDataLock, driver>>

\* The statements of the operation after supportType, up to the first
\* callback or the return.
body(t) ==
    /\ ~Terminated
    /\ stack[t] # <<>>
    /\ IsDataOp(Top(t))
    /\ Top(t).at = "body"
    /\ LET c == Top(t).call
       IN /\ mDataStorage' = After(mDataStorage, c)
          /\ ret' \in (IF c.op = "read" THEN ReadResult(mDataStorage, c.T, c.K) ELSE {void})
          /\ stack' = SetTop(t, Frame(c, IF c.op = "write" /\ c.flag THEN "key" ELSE "return",
                                      Top(t).p))
          /\ notified' =
                [notified EXCEPT ![t] =
                    IF Len(stack[t]) > 1
                    THEN LET w == stack[t][1].call
                         IN [@ EXCEPT
                               !.stored = @ /\ EntryOf(MapIn(mDataStorage', w.T, "mValues"), w.K)
                                              = EntryOf(MapIn(mDataStorage, w.T, "mValues"), w.K),
                               !.kept = @ /\ RegistrationsOf(mDataStorage', w.T, w.K)
                                            = RegistrationsOf(mDataStorage, w.T, w.K)]
                    ELSE IF c.op = "write" /\ c.flag
                    THEN Notifying(EntryOf(MapIn(mDataStorage, c.T, "mValues"), c.K),
                                   RegisteredShapes(mDataStorage', c.T, c.K), {}, TRUE, TRUE)
                    ELSE @]
    /\ UNCHANGED <<mInstance, heap, mDataLock>>
    /\ UNCHANGED <<hash_code, fired, prev, last, written, subscribed, nOps, NDEBUG, reentered, held>>

\* Variant for C29: write goes from the key-only callback to the key+value one.
NextShapeSkipsValue(at) == IF at = "key" THEN "pair" ELSE "return"

\* The statement after the callback of a shape.
NextShape(at) == IF at = "key" THEN "value" ELSE IF at = "value" THEN "pair" ELSE "return"

\* write: `if (map->m...Events.find(pKey) != ...end() && map->m...Events[pKey])
\* map->m...Events[pKey](...);` for one shape: the callback is entered, or the
\* shape is skipped.  The value handed to a callback is `map->mValues[pKey]`,
\* read when the callback is called: the subscript inserts a default value if
\* the entry has been erased since the store.
raise(t) ==
    /\ ~Terminated
    /\ stack[t] # <<>>
    /\ Top(t).call.op = "write"
    /\ Top(t).at \in {"key", "value", "pair"}
    /\ LET c == Top(t).call
           key == templateToID(c.T)
           map == mDataStorage[key]
           values == subscript(map.mValues, c.K, Default)
           inv == IF Top(t).at = "key" THEN RaiseKey(map, c.K)
                  ELSE IF Top(t).at = "value" THEN RaiseValue(map, c.K, values[c.K])
                  ELSE RaisePair(map, c.K, values[c.K])
           on == Frame(c, NextShape(Top(t).at), Top(t).p)
       IN IF inv = <<>>
          THEN /\ stack' = SetTop(t, on)
               /\ UNCHANGED <<mDataStorage, notified>>
          ELSE /\ stack' = [stack EXCEPT ![t] =
                               Append(SubSeq(@, 1, Len(@) - 1), on)
                               \o <<Frame(Call("callback", c.T, c.K,
                                               IF Top(t).at = "key" THEN "-" ELSE values[c.K],
                                               FALSE, inv[1].cb),
                                          "running", nullptr)>>]
               /\ mDataStorage' = (IF Top(t).at = "key"
                                   THEN mDataStorage
                                   ELSE assign(mDataStorage, key, [map EXCEPT !.mValues = values]))
               /\ notified' = (IF Len(stack[t]) = 1
                               THEN [notified EXCEPT ![t].done = @ \cup {Top(t).at}]
                               ELSE notified)
    /\ UNCHANGED <<mInstance, heap, ret, mDataLock>>
    /\ UNCHANGED <<hash_code, fired, prev, last, written, subscribed, nOps, NDEBUG, reentered, held>>

\* A running callback calls a data operation.
callbackCalls(t, c) ==
    /\ At(t, "callback", "running")
    /\ Depth(t) < MaxDepth
    /\ stack' = Push(t, Frame(c, "begin", nullptr))
    /\ UNCHANGED <<mInstance, heap, mDataStorage, ret, mDataLock, driver>>

\* A running callback returns to write().
callbackReturns(t) ==
    /\ At(t, "callback", "running")
    /\ stack' = Pop(t)
    /\ UNCHANGED <<mInstance, heap, mDataStorage, ret, mDataLock, driver>>

\* Variant for C28: the operation returns without unlocking the mutex.
returnKeepsLock(t) ==
    /\ ~Terminated
    /\ stack[t] # <<>>
    /\ IsDataOp(Top(t))
    /\ Top(t).at = "return"
    /\ Return(t)
    /\ reentered' = (IF Len(stack[t]) > 1 THEN reentered \cup {t} ELSE reentered)
    /\ notified' = (IF Len(stack[t]) > 1 THEN notified ELSE [notified EXCEPT ![t] = Idle])
    /\ held' = (IF Len(stack[t]) = 1 /\ Top(t).call.op = "read"
                THEN [held EXCEPT ![t] = Reference(Top(t).call.T, Top(t).call.K, ret)]
                ELSE held)
    /\ UNCHANGED <<mInstance, heap, mDataStorage, ret, mDataLock>>
    /\ UNCHANGED <<hash_code, fired, prev, last, written, subscribed, nOps, NDEBUG>>

\* The operation returns: the destructor of the lock_guard unlocks the mutex
\* it locked.  reentered notes a return into a callback.
return(t) ==
    /\ ~Terminated
    /\ stack[t] # <<>>
    /\ IsDataOp(Top(t))
    /\ Top(t).at = "return"
    /\ mDataLock' = [mDataLock EXCEPT ![Top(t).p] = Unlock(@)]
    /\ Return(t)
    /\ reentered' = (IF Len(stack[t]) > 1 THEN reentered \cup {t} ELSE reentered)
    /\ notified' = (IF Len(stack[t]) > 1 THEN notified ELSE [notified EXCEPT ![t] = Idle])
    /\ held' = (IF Len(stack[t]) = 1 /\ Top(t).call.op = "read"
                THEN [held EXCEPT ![t] = Reference(Top(t).call.T, Top(t).call.K, ret)]
                ELSE held)
    /\ UNCHANGED <<mInstance, heap, mDataStorage, ret>>
    /\ UNCHANGED <<hash_code, fired, prev, last, written, subscribed, nOps, NDEBUG>>

\* The statements of thread t.
ThreadStep(t) ==
    \/ \E c \in ThreadCalls : callData(t, c)
    \/ lock_guard(t)
    \/ supportType_find(t)
    \/ supportType_new(t)
    \/ body(t)
    \/ raise(t)
    \/ \E c \in CallbackCalls : callbackCalls(t, c)
    \/ callbackReturns(t)
    \/ return(t)

\* SpecThreads: the instance is created, then the threads call the data
\* operations, their statements interleaved.
NextThreads ==
    \/ createFirst
    \/ \E t \in Threads : ThreadStep(t)

SpecThreads == Init /\ [][NextThreads]_vars

\* The caller of read uses the value, outside any operation: it reads through
\* the reference read returned.  If the entry has been erased or its map
\* deleted since, the reference dangles.
use(t) ==
    /\ ~Terminated
    /\ stack[t] = <<>>
    /\ held[t] # NoReference
    /\ IF EntryOf(MapIn(mDataStorage, held[t].T, "mValues"), held[t].K) = Absent
       THEN Undefined
       ELSE /\ ret' = EntryOf(MapIn(mDataStorage, held[t].T, "mValues"), held[t].K)
            /\ held' = [held EXCEPT ![t] = NoReference]
            /\ UNCHANGED <<mInstance, heap, mDataStorage, stack, mDataLock>>
            /\ UNCHANGED <<hash_code, fired, prev, last, written, subscribed, nOps, NDEBUG,
                           reentered, notified>>

\* SpecReferences: SpecThreads with the callers of read using the references
\* read returned.
NextReferences ==
    \/ NextThreads
    \/ \E t \in Threads : use(t)

SpecReferences == Init /\ [][NextReferences]_vars

\* The statement thread t is at in a data operation uses an object destroy()
\* has deleted: the lock_guard locks through mInstance, null or dangling; the
\* statements after it use the instance the lock_guard locked, and the body
\* and the callback statements the ValueMaps of that instance; the return
\* unlocks the mutex of that instance.
Dangling(t) ==
    /\ stack[t] # <<>>
    /\ IsDataOp(Top(t))
    /\ \/ Top(t).at = "begin" /\ mInstance \notin heap
       \/ Top(t).at # "begin" /\ Top(t).p \notin heap
       \/ /\ Top(t).at \in {"body", "key", "value", "pair"}
          /\ \E h \in DOMAIN mDataStorage :
                /\ mDataStorage[h] = Freed
                /\ Top(t).call.op \in TypedOps => h = templateToID(Top(t).call.T)

\* A statement of a data operation that uses a deleted object.
useAfterDelete(t) ==
    /\ ~Terminated
    /\ Dangling(t)
    /\ Undefined

\* The main thread creates the instance before the threads run, and never
\* again.
createOnce ==
    /\ nOps = 0
    /\ createFirst

\* SpecDestroy: the threads call the data operations and destroy(), and so do
\* the callbacks of write, their statements interleaved.
NextDestroy ==
    \/ createOnce
    \/ \E t \in Threads :
          \/ ~Dangling(t) /\ ThreadStep(t)
          \/ useAfterDelete(t)
          \/ callLifecycle(t, "destroy")
          \/ callbackCalls(t, Call("destroy", "-", "-", "-", FALSE, "-"))
          \/ destroy_test(t)
          \/ destroy_lock(t)
          \/ destroy_deleteMaps(t)
          \/ destroy_delete(t)
          \/ destroy_reset(t)

SpecDestroy == Init /\ [][NextDestroy]_vars

\* The next statement of the operation thread t is in: no statement of an
\* operation suspends, so a thread that can run its next statement does.
Continue(t) ==
    \/ lock_guard(t)
    \/ supportType_find(t)
    \/ supportType_new(t)
    \/ body(t)
    \/ raise(t)
    \/ return(t)

\* The callback called by the d-th of the nested operations of thread t
\* returns.
callbackReturnsAt(t, d) ==
    /\ Len(stack[t]) = 2 * d
    /\ callbackReturns(t)

\* SpecThreadsFair: SpecThreads where every thread keeps running the operation
\* it is in, and every invocation of a callback returns after finitely many
\* calls.
SpecThreadsFair ==
    /\ Init
    /\ [][NextThreads]_vars
    /\ \A t \in Threads :
          /\ WF_vars(Continue(t))
          /\ \A d \in 1..MaxDepth : SF_vars(callbackReturnsAt(t, d))

\* ------------------------------------------------------------ observations
\* The map entries the most recent call added, removed or altered.
changed == Changed(prev, mDataStorage)

\* The value held for key K in T's partition, Absent when there is none.
Stored(T, K) == EntryOf(MapIn(mDataStorage, T, "mValues"), K)

\* The callback map that holds the callbacks of a shape.
EventMap(shape) ==
    CASE shape = "key" -> "mKeyEvents"
      [] shape = "value" -> "mValueEvents"
      [] shape = "pair" -> "mPairEvents"

\* The callback registered for (T, K) in map n, Absent when there is none.
Registered(T, K, n) == EntryOf(MapIn(mDataStorage, T, n), K)

\* The shapes the caller has a subscription for at (T, K), in raising order.
SubscribedShapes(T, K) ==
    SelectSeq(Shapes, LAMBDA shape : subscribed[<<T, K, shape>>] # Absent)

\* The arguments a callback of a shape receives for key K and value v.
ArgsFor(shape, K, v) ==
    CASE shape = "key" -> <<K>>
      [] shape = "value" -> <<v>>
      [] shape = "pair" -> <<K, v>>

\* ------------------------------------------------------------------ claims
\* C1: read<T>(K) returns the value of the most recent write<T>(K, .) that has
\* not been followed by a wipe of that entry; after two writes of the same
\* (T, K) it returns the second value.
LastWriteWins ==
    (last.op = "read" /\ written[<<last.T, last.K>>] # <<>>)
        => ret = written[<<last.T, last.K>>][Len(written[<<last.T, last.K>>])]

\* A read that follows two writes of different values to the same (T, K).
LastWriteWinsWitness ==
    /\ last.op = "read"
    /\ written[<<last.T, last.K>>] = <<"v0", "v1">>
    /\ ret = "v1"

\* C2: for distinct types A and B, a write<A>(K, v) never changes what
\* read<B>(K') returns for any key K', and a read<B>(K) with nothing written
\* under B at K returns B's default, never a value written under A.
TypeIsolation ==
    /\ last.op = "write" =>
         \A B \in Types \ {last.T}, K \in Keys :
            ReadResult(mDataStorage, B, K) = ReadResult(prev, B, K)
    /\ (last.op = "read" /\ written[<<last.T, last.K>>] = <<>>) => ret = Default

\* C3: a write<T>(K, v, true) invokes exactly the callbacks subscribed for
\* (T, K), once each, in the order key-only, value-only, key+value; a shape
\* without a subscription for (T, K) is skipped.
CallbackOrder ==
    (last.op = "write" /\ last.flag) =>
        /\ [i \in DOMAIN fired |-> fired[i].shape] = SubscribedShapes(last.T, last.K)
        /\ \A i \in DOMAIN fired :
              fired[i].cb = subscribed[<<last.T, last.K, fired[i].shape>>]

\* A raising write to a key with two shapes subscribed, each with its own
\* callback.
CallbackOrderWitness ==
    /\ last.op = "write" /\ last.flag
    /\ Len(fired) = 2
    /\ fired[1].shape = "value" /\ fired[2].shape = "pair"
    /\ fired[1].cb # fired[2].cb

SilentWrite ==
    (last.op = "write" /\ ~last.flag) =>
        /\ fired = <<>>
        /\ ReadResult(mDataStorage, last.T, last.K) = {last.v}

\* A silent write to a key that has a subscription.
SilentWriteWitness ==
    /\ last.op = "write" /\ ~last.flag
    /\ SubscribedShapes(last.T, last.K) # <<>>
    /\ Stored(last.T, last.K) = "v1"

\* C6: a subscribe of one shape for (T, K) makes its callback the one
\* registered for that shape, replacing any earlier one, and changes nothing
\* else: the other two shapes of (T, K) keep their registrations, so the three
\* shapes hold one callback each.
SubscribeReplaces ==
    last.op \in {"subscribeKey", "subscribeValue", "subscribePair"} =>
        LET n == CASE last.op = "subscribeKey" -> "mKeyEvents"
                   [] last.op = "subscribeValue" -> "mValueEvents"
                   [] last.op = "subscribePair" -> "mPairEvents"
        IN /\ Registered(last.T, last.K, n) = last.cb
           /\ \A e \in changed : e.T = last.T /\ e.map = n /\ e.K = last.K
           /\ \A shape \in {"key", "value", "pair"} :
                 Registered(last.T, last.K, EventMap(shape)) = subscribed[<<last.T, last.K, shape>>]

\* A subscribe that replaces the callback of its shape while another shape of
\* the same (T, K) holds a callback.
SubscribeReplacesWitness ==
    /\ last.op = "subscribeKey" /\ last.cb = "g"
    /\ changed = {[T |-> last.T, map |-> "mKeyEvents", K |-> last.K, old |-> "f", new |-> "g"]}
    /\ Registered(last.T, last.K, "mValueEvents") = "f"

\* C7: wipeTypeKey<A>(K) removes A's entry at K and changes nothing else: no
\* other key of A, no entry of another type, no callback registration.
PerTypeWipe ==
    last.op = "wipeTypeKey" =>
        /\ Stored(last.T, last.K) = Absent
        /\ \A e \in changed : e.T = last.T /\ e.map = "mValues" /\ e.K = last.K

\* A wipeTypeKey<A>(K) that removes A's value while another type holds a
\* value at K.
PerTypeWipeWitness ==
    /\ last.op = "wipeTypeKey"
    /\ changed = {[T |-> last.T, map |-> "mValues", K |-> last.K, old |-> "v1", new |-> Absent]}
    /\ \E B \in Types \ {last.T} : Stored(B, last.K) = "v1"

\* C8: after wipeKey(K) no partition holds a value for K, and nothing else
\* changed: no value of another key, no callback registration.
CrossTypeWipe ==
    last.op = "wipeKey" =>
        /\ \A T \in Types : Stored(T, last.K) = Absent
        /\ \A e \in changed : e.map = "mValues" /\ e.K = last.K

\* A wipeKey(K) that removes the values two types held at K.
CrossTypeWipeWitness ==
    /\ last.op = "wipeKey"
    /\ {e.T : e \in changed} = Types
    /\ \A e \in changed : e.old # Absent

\* C9: wipeBoard(false) removes every value of every partition and changes no
\* callback registration: every callback subscribed before it is invoked by
\* the next write<T>(K, v, true).
WipeBoardKeepsCallbacks ==
    (last.op = "wipeBoard" /\ ~last.flag) =>
        /\ \A T \in Types, K \in Keys : Stored(T, K) = Absent
        /\ \A e \in changed : e.map = "mValues"
        /\ \A T \in Types, K \in Keys, v \in Values :
              \A f \in Fires(mDataStorage, T, K, v) :
                 /\ [i \in DOMAIN f |-> f[i].shape] = SubscribedShapes(T, K)
                 /\ \A i \in DOMAIN f : f[i].cb = subscribed[<<T, K, f[i].shape>>]

\* A wipeBoard(false) that removes a value while a callback is subscribed.
WipeBoardKeepsCallbacksWitness ==
    /\ last.op = "wipeBoard" /\ ~last.flag
    /\ changed # {}
    /\ \E T \in Types, K \in Keys : SubscribedShapes(T, K) # <<>>

\* C10: after wipeBoard(true) no value and no callback registration remains
\* in any partition, and a write<T>(K, v, true) invokes no callback as long as
\* nothing has been subscribed for (T, K) since.
WipeBoardClearsCallbacks ==
    /\ (last.op = "wipeBoard" /\ last.flag) =>
          /\ \A T \in Types, n \in MapNames : MapIn(mDataStorage, T, n) = EmptyMap
          /\ \A T \in Types, K \in Keys, v \in Values : Fires(mDataStorage, T, K, v) = {<<>>}
    /\ (last.op = "write" /\ last.flag /\ SubscribedShapes(last.T, last.K) = <<>>) =>
          fired = <<>>

\* A wipeBoard(true) that removes a value and a callback registration.
WipeBoardClearsCallbacksWitness ==
    /\ last.op = "wipeBoard" /\ last.flag
    /\ \E e \in changed : e.map = "mValues"
    /\ \E e \in changed : e.map = "mPairEvents"

\* C11: unsubscribe<T>(K) removes the three registrations of (T, K) and
\* changes nothing else: no registration of another key or another type, no
\* stored value.
UnsubscribeFrame ==
    last.op = "unsubscribe" =>
        /\ \A shape \in {"key", "value", "pair"} :
              Registered(last.T, last.K, EventMap(shape)) = Absent
        /\ \A e \in changed : e.T = last.T /\ e.K = last.K /\ e.map # "mValues"

\* An unsubscribe<T>(K) that removes two registrations of (T, K).
UnsubscribeFrameWitness ==
    /\ last.op = "unsubscribe"
    /\ {e.map : e \in changed} = {"mValueEvents", "mPairEvents"}
    /\ \A e \in changed : e.new = Absent

\* C12: unsubscribeAll(K) removes every registration for K in every
\* partition, so that a write<T>(K, v, true) of any type invokes nothing, and
\* changes no registration of another key and no stored value.
UnsubscribeAllFrame ==
    last.op = "unsubscribeAll" =>
        /\ \A T \in Types, n \in MapNames \ {"mValues"} : Registered(T, last.K, n) = Absent
        /\ \A T \in Types, v \in Values : Fires(mDataStorage, T, last.K, v) = {<<>>}
        /\ \A e \in changed : e.K = last.K /\ e.map # "mValues"

\* An unsubscribeAll(K) that removes a registration of each of two types.
UnsubscribeAllFrameWitness ==
    /\ last.op = "unsubscribeAll"
    /\ {e.T : e \in changed} = Types
    /\ \A e \in changed : e.old # Absent /\ e.new = Absent

\* C13: after a create() that returns true, whether or not an instance was
\* live before, isReady() is true and the store holds no partition: every read
\* yields the default and no write invokes a callback.
CreateReinitialises ==
    (last.op = "create" /\ ret = "true") =>
        /\ isReady
        /\ mDataStorage = NoStorage
        /\ \A T \in Types, K \in Keys : ReadResult(mDataStorage, T, K) = {Default}
        /\ \A T \in Types, K \in Keys, v \in Values : Fires(mDataStorage, T, K, v) = {<<>>}

\* A create() called while an instance holding a value and a registration is
\* live.
CreateReinitialisesWitness ==
    /\ last.op = "create" /\ last.flag /\ ret = "true"
    /\ \E e \in changed : e.map = "mValues" /\ e.old = "v1"
    /\ \E e \in changed : e.map # "mValues"

\* C14: after any destroy() isReady() is false, and a destroy() with no live
\* instance changes nothing; so destroy() may be called twice in a row.
IdempotentDestroy ==
    last.op = "destroy" =>
        /\ ~isReady
        /\ ~last.flag => mDataStorage = prev

\* The second of two destroy() calls in a row: a destroy() called with no
\* live instance after an earlier call (only destroy() leaves no instance).
IdempotentDestroyWitness ==
    /\ last.op = "destroy" /\ ~last.flag
    /\ nOps = 3
    /\ ~isReady

\* C19: a read<T>(K) of a key with no entry in T's partition (never written,
\* or wiped since) returns T's default and inserts the entry (K, default), the
\* only change it makes; it never returns a value that was wiped.
MissingKeyRead ==
    last.op = "read" =>
        /\ written[<<last.T, last.K>>] = <<>> => ret = Default
        /\ EntryOf(MapIn(prev, last.T, "mValues"), last.K) = Absent =>
              /\ ret = Default
              /\ changed = {[T |-> last.T, map |-> "mValues", K |-> last.K,
                             old |-> Absent, new |-> Default]}

\* A read of a missing key in a partition that exists and holds another key.
MissingKeyReadWitness ==
    /\ last.op = "read" /\ ret = Default
    /\ DOMAIN MapIn(prev, last.T, "mValues") = Keys \ {last.K}
    /\ DOMAIN MapIn(mDataStorage, last.T, "mValues") = Keys

\* C15: a data operation called while no instance is live ends in an
\* assertion failure or a fault and changes nothing; it never returns as if
\* it had done its work.
LifecycleViolationFailsFast ==
    (last.op \in DataOps /\ ~isReady) =>
        /\ ret \in {SIGABRT, SIGSEGV}
        /\ mDataStorage = prev

\* C20: a failed allocation is reported as a value: create() returns false
\* (with isReady() false) and no operation ends with only the exception.
AllocationFailureReported ==
    /\ (last.op = "create" /\ ~isReady) => ret = "false"
    /\ ret # bad_alloc

\* C16: whatever the interleaving of the create() and destroy() calls of the
\* threads, at most one Blackboard is allocated at any time, and when no call
\* is in progress the only Blackboard allocated is the one mInstance points to.
SingletonUnderThreads ==
    ~Terminated =>
        /\ Cardinality(heap) <= 1
        /\ (\A t \in Threads : stack[t] = <<>>) => heap \subseteq {mInstance}
\* The threads that are inside a data operation: past its lock_guard and not
\* yet returned, the callbacks it runs included.
Inside(t) == \E i \in 1..Len(stack[t]) : IsDataOp(stack[t][i]) /\ stack[t][i].at # "begin"

\* C17: at most one thread at a time is inside a data operation, callbacks
\* included: a thread inside one owns the mutex of the instance, so until it
\* has returned no other thread executes a statement that reads or changes the
\* storage.
MutualExclusion ==
    /\ Cardinality({t \in Threads : Inside(t)}) <= 1
    /\ \A t \in Threads : Inside(t) => mDataLock[mInstance].owner = t

\* One thread is running a callback while the other has called an operation
\* and waits at its lock_guard.
MutualExclusionWitness ==
    \E t, u \in Threads :
        /\ stack[t] # <<>> /\ Top(t).call.op = "callback"
        /\ stack[u] # <<>> /\ IsDataOp(Top(u)) /\ Top(u).at = "begin"
        /\ t # u

\* The operations of thread t that hold a lock of the mutex.
Holding(t) == Cardinality({i \in 1..Len(stack[t]) : IsDataOp(stack[t][i]) /\ stack[t][i].at # "begin"})

\* C18: an operation called by a callback on the thread of the write takes the
\* lock again without blocking (the owner of the mutex can always take its
\* next step), the mutex counts one lock per operation in progress, and once
\* the outermost operation has returned the thread owns nothing: a thread
\* waiting at its lock_guard can then proceed.
ReentrantWithoutDeadlock ==
    isReady =>
        \A t \in Threads :
            /\ mDataLock[mInstance].owner = t =>
                  /\ ENABLED ThreadStep(t)
                  /\ mDataLock[mInstance].count = Holding(t)
            /\ stack[t] = <<>> => mDataLock[mInstance].owner # t
            /\ (mDataLock[mInstance].owner = none /\ stack[t] # <<>>) => ENABLED lock_guard(t)

\* Thread t has returned from a write during which a callback called an
\* operation that returned, and the other thread has since taken the lock.
ReentrantWithoutDeadlockWitness ==
    \E t, u \in Threads :
        /\ t \in reentered
        /\ stack[t] = <<>>
        /\ t # u
        /\ mDataLock[mInstance].owner = u
\* The types with a partition registered in a storage.
Partitions(storage) == {T \in Types : find(storage, templateToID(T))}

\* C23: between a create() and the next destroy() no partition is removed:
\* every data operation, the wipes and the unsubscribes in particular,
\* leaves every registered partition registered, for the same type.
PartitionsNeverRemoved ==
    last.op \in DataOps =>
        \A h \in DOMAIN prev : find(mDataStorage, h) /\ mDataStorage[h].type = prev[h].type

\* A wipeBoard(true) of a store with both partitions registered and not
\* empty: both partitions stay, empty.
PartitionsNeverRemovedWitness ==
    /\ last.op = "wipeBoard" /\ last.flag
    /\ Partitions(prev) = Types
    /\ changed # {}
    /\ Partitions(mDataStorage) = Types
    /\ \A T \in Types, n \in MapNames : MapIn(mDataStorage, T, n) = EmptyMap

\* The operations that take the type of the value: they start with
\* supportType<T>().
WriteReadSubscribe == {"write", "read", "subscribeKey", "subscribeValue", "subscribePair"}

\* C24 as stated: a partition for T comes into being only by a write<T>, a
\* read<T> or a subscribe<T>, and each of these leaves T's partition
\* registered.
PartitionOnlyByWriteReadSubscribe ==
    /\ \A T \in Partitions(mDataStorage) \ Partitions(prev) :
          last.op \in WriteReadSubscribe /\ last.T = T
    /\ last.op \in WriteReadSubscribe => last.T \in Partitions(mDataStorage)

\* C24 amended: a partition for T comes into being only by an operation that
\* takes the type T (write, read, subscribe, wipeTypeKey, unsubscribe), and
\* each of these leaves T's partition registered; wipeKey, wipeBoard and
\* unsubscribeAll create none.
PartitionByTypedOperation ==
    /\ \A T \in Partitions(mDataStorage) \ Partitions(prev) :
          last.op \in TypedOps /\ last.T = T
    /\ last.op \in TypedOps => last.T \in Partitions(mDataStorage)

\* An unsubscribe<T>(K) as the first operation on T: it registers T's
\* partition.
PartitionByTypedOperationWitness ==
    /\ last.op = "unsubscribe"
    /\ last.T \notin Partitions(prev)
    /\ last.T \in Partitions(mDataStorage)

\* C26: a write<T>(K, ., true) invokes no callback other than those subscribed
\* for (T, K): a callback subscribed only for another type at K, or for T at
\* another key, is not invoked.
CallbackTypeIsolation ==
    last.op = "write" =>
        \A c \in Callbacks :
            (\A shape \in {"key", "value", "pair"} : subscribed[<<last.T, last.K, shape>>] # c)
                => \A i \in DOMAIN fired : fired[i].cb # c

\* A raising write<T>(K) that invokes nothing while a callback is subscribed
\* for the other type at K and another for T at the other key.
CallbackTypeIsolationWitness ==
    /\ last.op = "write" /\ last.flag
    /\ fired = <<>>
    /\ \E B \in Types \ {last.T}, shape \in {"key", "value", "pair"} :
          subscribed[<<B, last.K, shape>>] # Absent
    /\ \E K \in Keys \ {last.K}, shape \in {"key", "value", "pair"} :
          subscribed[<<last.T, K, shape>>] # Absent

\* The callback maps of every type.
Registrations(storage) ==
    [x \in Types \X {"mKeyEvents", "mValueEvents", "mPairEvents"} |-> MapIn(storage, x[1], x[2])]

\* The value maps of every type.
AllValues(storage) == [T \in Types |-> MapIn(storage, T, "mValues")]

\* C30: write<T>(K, v, false) changes the value at (T, K) and nothing else:
\* every callback map is as before, with no entry inserted; a subscribe<T>(K,
\* cb) changes the registration of its shape for (T, K) and nothing else:
\* every value map is as before, with no entry inserted for K.
WriteSubscribeFrame ==
    /\ (last.op = "write" /\ ~last.flag) =>
          /\ Registrations(mDataStorage) = Registrations(prev)
          /\ \A T \in Types, K \in Keys :
                <<T, K>> # <<last.T, last.K>> =>
                    EntryOf(AllValues(mDataStorage)[T], K) = EntryOf(AllValues(prev)[T], K)
    /\ last.op \in {"subscribeKey", "subscribeValue", "subscribePair"} =>
          /\ AllValues(mDataStorage) = AllValues(prev)
          /\ \A x \in DOMAIN Registrations(prev), K \in Keys :
                EntryOf(Registrations(mDataStorage)[x], K) # EntryOf(Registrations(prev)[x], K)
                    => x[1] = last.T /\ K = last.K /\ Registered(last.T, K, x[2]) = last.cb

\* A subscribe for a key that holds no value, in a partition that holds a
\* value at another key.
WriteSubscribeFrameWitness ==
    /\ last.op = "subscribeValue"
    /\ Stored(last.T, last.K) = Absent
    /\ changed # {}
    /\ \E K \in Keys \ {last.K} : written[<<last.T, K>>] # <<>>
\* C22: a thread creates the partition of a type only while no partition is
\* registered for the type, and no two threads are creating a partition at
\* the same time: the partition of a type is created once, never overwritten,
\* and every operation on the type finds that one.
LazyCreationRaceFree ==
    \A t \in Threads :
        (stack[t] # <<>> /\ Top(t).at = "new") =>
            /\ ~find(mDataStorage, templateToID(Top(t).call.T))
            /\ \A u \in Threads \ {t} :
                  \A i \in DOMAIN stack[u] : stack[u][i].at \notin {"supportType", "new"}

\* Two threads are the first to use a type: one is creating its partition
\* while the other has called an operation on the same type and waits.
LazyCreationRaceFreeWitness ==
    \E t, u \in Threads :
        /\ t # u
        /\ stack[t] # <<>> /\ Top(t).at = "new"
        /\ stack[u] # <<>> /\ Top(u).at = "begin"
        /\ Top(u).call.op \in TypedOps
        /\ Top(u).call.T = Top(t).call.T
        /\ mDataStorage = NoStorage
\* A read<T>(K) called by a callback of the write<T>(K, v, true) thread t
\* called has computed its result.
ReadInCallback(t) ==
    /\ Len(stack[t]) = 3
    /\ stack[t][1].call.op = "write"
    /\ stack[t][2].call.op = "callback"
    /\ Top(t).call.op = "read"
    /\ Top(t).at = "return"
    /\ Top(t).call.T = stack[t][1].call.T
    /\ Top(t).call.K = stack[t][1].call.K

\* C27 as stated: a read<T>(K) made from inside a callback fired by
\* write<T>(K, v, true) returns v, whatever the callbacks of that write have
\* done before the read.
ReadInCallbackReturnsWritten ==
    \A t \in Threads : ReadInCallback(t) => ret = stack[t][1].call.v

\* C27: the value is stored before any callback of the write runs: a
\* read<T>(K) made from inside a callback fired by write<T>(K, v, true)
\* returns v and not the previous value, as long as no operation called by a
\* callback of that write has changed the value of (T, K) since the store.
StoreBeforeNotify ==
    \A t \in Threads :
        (ReadInCallback(t) /\ notified[t].stored) => ret = stack[t][1].call.v

\* A read called by a callback of a write that replaced a different value; the
\* callbacks have changed nothing since the store.
StoreBeforeNotifyWitness ==
    \E t \in Threads :
        /\ ReadInCallback(t)
        /\ notified[t].stored
        /\ notified[t].before = "v0"
        /\ stack[t][1].call.v = "v1"
        /\ ret = "v1"

\* The write<T>(K, v, true) thread t called outside any callback has raised
\* its callbacks and is about to return.
Notified(t) ==
    /\ Len(stack[t]) = 1
    /\ Top(t).call.op = "write"
    /\ Top(t).call.flag
    /\ Top(t).at = "return"

\* C29 as stated: the shapes a write<T>(K, v, true) fires are those registered
\* for (T, K) when the write starts, whatever the callbacks fired earlier in
\* the same write have subscribed or unsubscribed.
CallbacksFixedAtStart ==
    \A t \in Threads : Notified(t) => notified[t].done = notified[t].due

\* C29: the key-only callback of a write<T>(K, v, true) fires as registered
\* when the write starts, and so do the other two shapes as long as no
\* callback fired earlier in the same write has changed the registrations of
\* (T, K).
CallbacksAsRegistered ==
    \A t \in Threads :
        Notified(t) =>
            /\ "key" \in notified[t].done <=> "key" \in notified[t].due
            /\ notified[t].kept => notified[t].done = notified[t].due

\* A write that has fired two shapes, the first of whose callbacks called an
\* operation that left the registrations of (T, K) as they were.
CallbacksAsRegisteredWitness ==
    \E t \in Threads :
        /\ Notified(t)
        /\ notified[t].kept
        /\ notified[t].done = {"key", "value"}
        /\ ~notified[t].stored

\* A callback of a write<T>(K, ., true) of thread t has called a
\* write<T>(K, ., true): the chain of writes has led back to a key that is
\* being notified.
Recursing(t) ==
    \E i, j \in DOMAIN stack[t] :
        /\ i < j
        /\ stack[t][i].call.op = "write" /\ stack[t][i].call.flag
        /\ stack[t][j].call.op = "write" /\ stack[t][j].call.flag
        /\ stack[t][j].call.T = stack[t][i].call.T
        /\ stack[t][j].call.K = stack[t][i].call.K

\* C28: a thread that is in an operation comes to be in none, holding no
\* lock, provided its callbacks return and unless a callback has called a
\* raising write on the key being notified.
Termination ==
    \A t \in Threads :
        (stack[t] # <<>>) ~>
            \/ Recursing(t)
            \/ stack[t] = <<>> /\ \A b \in Blackboards : mDataLock[b].owner # t

\* A callback of a write has called a raising write on the key being
\* notified, and that write has called the same callback again: nothing in
\* write stops the recursion.
TerminationWitness ==
    \E t \in Threads :
        /\ Len(stack[t]) = 4
        /\ Recursing(t)
        /\ stack[t][2].call.op = "callback"
        /\ Top(t).call.op = "callback"
        /\ Top(t).call.cb = stack[t][2].call.cb
        /\ mDataLock[mInstance] = [owner |-> t, count |-> 2]

\* C21: the value a caller obtained from read<T>(K) stays the value of (T, K)
\* while the caller uses it: no write or wipe of another thread changes or
\* erases the entry the caller reads, and no use of it is undefined.
ReadValueUnderLock ==
    /\ ret # undefined
    /\ \A t \in Threads :
          held[t] # NoReference =>
              EntryOf(MapIn(mDataStorage, held[t].T, "mValues"), held[t].K) = held[t].v

\* C25: no data operation is at a statement that uses a partition, the mutex
\* or the instance after destroy() has deleted it, whether destroy() runs on
\* another thread or is called by a callback of the write itself, and no
\* statement has used a deleted object.
NoUseAfterDestroy ==
    /\ ret # undefined
    /\ \A t \in Threads : ~Dangling(t)

====
